---- MODULE Spec2Model ----
(***************************************************************************)
(* The instrumented stepped-execution engine of CodeLand                   *)
(* (class ExecutionEngine, src/js/executionEngine.js, kept in              *)
(* src/unnamed/part_000 lines 1383-1638) as a state machine.               *)
(*                                                                         *)
(* Source text is a sequence of symbols.  A symbol is one character        *)
(* (space, tab, newline, slash) or one JavaScript lexeme of the small      *)
(* statement vocabulary below, so that split / trim / startsWith / join    *)
(* and the evaluation of the instrumented text are computed on the text    *)
(* the way the code computes them.                                         *)
(***************************************************************************)
EXTENDS Integers, Sequences, FiniteSets, TLC

VARIABLES
  code,              \* this.code
  language,          \* this.language
  executionState,    \* this.executionState
  pc,                \* position of the execute() call: idle / running / thrown / returned
  instrumentedCode,  \* const instrumentedCode of execute()
  ip,                \* next statement of the function built by executeInstrumented
  completion,        \* value thrown out of, or returned by, the evaluated function
  result,            \* what the last execute() call gave its caller
  lastOp,            \* the public operation called last, with its arguments
  run,               \* bookkeeping of the latest run: history length at its start,
                     \* armed lines the tracking hook was invoked for, program errors
  loopVars,          \* the counters i of the for loops being executed, innermost last
  returned,          \* what the last query gave its caller, kept by the caller until
                     \* it loads a program or starts a run
  resultState,       \* the object behind the state field of the results handed out:
                     \* none yet, the engine's own state object, or one it has dropped
  \* VRDebugAssistant (src/js/enhanced-main.js)
  currentCode,       \* this.currentCode
  currentLanguage,   \* this.currentLanguage
  breakpoints,       \* this.breakpoints, in insertion order
  exported,          \* the session data exported last, if any
  outcomes,          \* what the executeCode calls finished so far gave: the first and
                     \* the latest of them
  \* LiveExecutionVisualizer (src/js/uiController.js)
  isPlaying,         \* this.isPlaying
  isPaused,          \* this.isPaused
  currentStep,       \* this.currentStep
  executionSteps,    \* this.executionSteps
  executionTimer,    \* this.executionTimer: the id setTimeout gave last, 0 for null
  timers,            \* ids of the timeouts set and neither fired nor cleared
  timersSet,         \* number of setTimeout calls so far
  errorDisplayed     \* index of the error step displayed while playing, if one was
                     \* since the user's last command

engineVars == <<code, language, executionState, pc, instrumentedCode, ip, completion,
                result, lastOp, run, loopVars, returned, resultState>>

sessionVars == <<currentCode, currentLanguage, breakpoints, exported>>

appVars == <<sessionVars, outcomes>>

vizVars == <<isPlaying, isPaused, currentStep, executionSteps, executionTimer, timers,
             timersSet, errorDisplayed>>

vars == <<engineVars, appVars, vizVars>>

(***************************************************************************)
(* Bounds of the model.                                                    *)
(***************************************************************************)
MaxSteps == 4        \* execute() is started only while step < MaxSteps
MaxLineNumber == 3   \* breakpoints are armed on lines 1..MaxLineNumber
MaxTextLen == 5      \* texts of SpecInstrument have at most this many symbols
MaxPlaybackSteps == 3  \* traces given to the visualizer have at most this many steps
MaxTimers == 4       \* setTimeout is called at most this many times
MaxSessionLine == 2  \* breakpoints of a session lie on lines 1..MaxSessionLine

(***************************************************************************)
(* Symbols of source text.                                                 *)
(***************************************************************************)
SP == " "
TAB == "\t"
NL == "\n"
SLASH == "/"
Whitespace == {SP, TAB}

NOP == "0;"
CAPX1 == "__captureVar('x',1);"
CAPX2 == "__captureVar('x',2);"
CAPY2 == "__captureVar('y',2);"
LOG == "console.log('hi');"
THROWERR == "throw new Error('boom');"
THROWNULL == "throw null;"
THROWSTR == "throw 'oops';"
RET == "return 7;"
TRY == "try{"
CATCH == "}catch(e){"
END == "}"
OPENPAREN == "("
FOR10 == "for(let i=0;i<10;i++){"
FOR11 == "for(let i=0;i<11;i++){"
FOR12 == "for(let i=0;i<12;i++){"
ELSEOPEN == "else{"

Undefined == "undefined"

(***************************************************************************)
(* String helpers, as the host language defines them.                      *)
(***************************************************************************)
RECURSIVE split(_)
split(text) ==
  IF \A i \in 1..Len(text) : text[i] # NL
    THEN <<text>>
    ELSE LET k == CHOOSE i \in 1..Len(text) :
                    text[i] = NL /\ \A j \in 1..(i - 1) : text[j] # NL
         IN  <<SubSeq(text, 1, k - 1)>> \o split(SubSeq(text, k + 1, Len(text)))

RECURSIVE join(_)
join(lines) ==
  IF Len(lines) = 0 THEN <<>>
  ELSE IF Len(lines) = 1 THEN lines[1]
  ELSE lines[1] \o <<NL>> \o join(Tail(lines))

RECURSIVE trimStart(_)
trimStart(line) ==
  IF line # <<>> /\ Head(line) \in Whitespace THEN trimStart(Tail(line)) ELSE line

RECURSIVE trimEnd(_)
trimEnd(line) ==
  IF line # <<>> /\ line[Len(line)] \in Whitespace
    THEN trimEnd(SubSeq(line, 1, Len(line) - 1))
    ELSE line

trim(line) == trimEnd(trimStart(line))

startsWith(line, prefix) ==
  Len(line) >= Len(prefix) /\ SubSeq(line, 1, Len(prefix)) = prefix

includes(line, needle) ==
  \E i \in 1..(Len(line) - Len(needle) + 1) : SubSeq(line, i, i + Len(needle) - 1) = needle

\* The characters of a symbol, and of a text.
spell(sym) ==
  CASE sym = NOP ->
         <<"0", ";">>
    [] sym = CAPX1 ->
         <<"_", "_", "c", "a", "p", "t", "u", "r", "e", "V", "a", "r", "(", "'", "x",
           "'", ",", "1", ")", ";">>
    [] sym = CAPX2 ->
         <<"_", "_", "c", "a", "p", "t", "u", "r", "e", "V", "a", "r", "(", "'", "x",
           "'", ",", "2", ")", ";">>
    [] sym = CAPY2 ->
         <<"_", "_", "c", "a", "p", "t", "u", "r", "e", "V", "a", "r", "(", "'", "y",
           "'", ",", "2", ")", ";">>
    [] sym = LOG ->
         <<"c", "o", "n", "s", "o", "l", "e", ".", "l", "o", "g", "(", "'", "h", "i",
           "'", ")", ";">>
    [] sym = THROWERR ->
         <<"t", "h", "r", "o", "w", " ", "n", "e", "w", " ", "E", "r", "r", "o", "r",
           "(", "'", "b", "o", "o", "m", "'", ")", ";">>
    [] sym = THROWNULL ->
         <<"t", "h", "r", "o", "w", " ", "n", "u", "l", "l", ";">>
    [] sym = THROWSTR ->
         <<"t", "h", "r", "o", "w", " ", "'", "o", "o", "p", "s", "'", ";">>
    [] sym = RET ->
         <<"r", "e", "t", "u", "r", "n", " ", "7", ";">>
    [] sym = TRY ->
         <<"t", "r", "y", "{">>
    [] sym = CATCH ->
         <<"}", "c", "a", "t", "c", "h", "(", "e", ")", "{">>
    [] sym = FOR10 ->
         <<"f", "o", "r", "(", "l", "e", "t", " ", "i", "=", "0", ";", "i", "<", "1",
           "0", ";", "i", "+", "+", ")", "{">>
    [] sym = FOR11 ->
         <<"f", "o", "r", "(", "l", "e", "t", " ", "i", "=", "0", ";", "i", "<", "1",
           "1", ";", "i", "+", "+", ")", "{">>
    [] sym = FOR12 ->
         <<"f", "o", "r", "(", "l", "e", "t", " ", "i", "=", "0", ";", "i", "<", "1",
           "2", ";", "i", "+", "+", ")", "{">>
    [] sym = ELSEOPEN ->
         <<"e", "l", "s", "e", "{">>
    [] OTHER -> <<sym>>

RECURSIVE chars(_)
chars(text) == IF text = <<>> THEN <<>> ELSE spell(Head(text)) \o chars(Tail(text))

(***************************************************************************)
(* instrumentCode                                                          *)
(***************************************************************************)
TrackCall(lineNum) == "__track(" \o ToString(lineNum) \o "); "

TrackedLineSameIndex(idx, line) == <<TrackCall(idx)>> \o line

TrackedLineAfter(idx, line) == line \o <<TrackCall(idx + 1)>>

\* `__track(${idx + 1}); ${line}`, idx counting from 0
TrackedLine(idx, line) == <<TrackCall(idx + 1)>> \o line

PassesThroughBlankOnly(line) == trim(line) = <<>>

\* line.trim() === '' || line.trim().startsWith('//')
PassesThrough(line) == trim(line) = <<>> \/ startsWith(trim(line), <<SLASH, SLASH>>)

instrumentCode(text) ==
  LET lines == split(text)
      instrumented == [i \in 1..Len(lines) |->
                         IF PassesThrough(lines[i])
                           THEN lines[i]
                           ELSE TrackedLine(i - 1, lines[i])]
  IN  join(instrumented)

(***************************************************************************)
(* executeInstrumented: new Function(..., `"use strict"; ${code}`) and the *)
(* call of the function.  The body is the statement sequence of the        *)
(* instrumented text: whitespace, newlines and // comments carry no        *)
(* statement.                                                              *)
(***************************************************************************)
RECURSIVE stripComment(_)
stripComment(line) ==
  IF Len(line) < 2 THEN line
  ELSE IF line[1] = SLASH /\ line[2] = SLASH THEN <<>>
  ELSE <<line[1]>> \o stripComment(Tail(line))

RECURSIVE statementsOfLines(_)
statementsOfLines(lines) ==
  IF lines = <<>> THEN <<>>
  ELSE SelectSeq(stripComment(Head(lines)), LAMBDA c : c \notin Whitespace)
         \o statementsOfLines(Tail(lines))

statements(text) == statementsOfLines(split(text))

IsFor(tok) == tok \in {FOR10, FOR11, FOR12}

\* the n of "i<n" in a for statement
loopBound(tok) ==
  CASE tok = FOR10 -> 10
    [] tok = FOR11 -> 11
    [] tok = FOR12 -> 12

\* The syntax check of new Function: blocks are balanced, every lexeme is a statement.
RECURSIVE wellFormed(_, _)
wellFormed(toks, open) ==
  IF toks = <<>> THEN open = <<>>
  ELSE LET t == Head(toks) IN
    CASE t = TRY -> wellFormed(Tail(toks), <<"try">> \o open)
      [] IsFor(t) -> wellFormed(Tail(toks), <<"for">> \o open)
      [] t = CATCH -> /\ open # <<>>
                      /\ Head(open) = "try"
                      /\ wellFormed(Tail(toks), <<"catch">> \o Tail(open))
      [] t = END -> /\ open # <<>>
                    /\ Head(open) \in {"catch", "for"}
                    /\ wellFormed(Tail(toks), Tail(open))
      [] t \in {SLASH, OPENPAREN, ELSEOPEN} -> FALSE
      [] OTHER -> wellFormed(Tail(toks), open)

compiles(text) == wellFormed(statements(text), <<>>)

\* The catch clause that receives a value thrown at statement i - 1, 0 when there
\* is none: the first "}catch(e){" met going forward outside any later block.
RECURSIVE findHandler(_, _, _)
findHandler(toks, i, depth) ==
  IF i > Len(toks) THEN 0
  ELSE CASE toks[i] = TRY \/ IsFor(toks[i]) -> findHandler(toks, i + 1, depth + 1)
         [] toks[i] = CATCH -> IF depth = 0 THEN i ELSE findHandler(toks, i + 1, depth)
         [] toks[i] = END ->
              findHandler(toks, i + 1, IF depth > 0 THEN depth - 1 ELSE 0)
         [] OTHER -> findHandler(toks, i + 1, depth)

\* The "}" closing the catch clause or loop body opened at statement i - 1.
RECURSIVE findEnd(_, _, _)
findEnd(toks, i, depth) ==
  IF i > Len(toks) THEN Len(toks)
  ELSE CASE toks[i] = TRY \/ IsFor(toks[i]) -> findEnd(toks, i + 1, depth + 1)
         [] toks[i] = END -> IF depth = 0 THEN i ELSE findEnd(toks, i + 1, depth - 1)
         [] OTHER -> findEnd(toks, i + 1, depth)

\* The statement that opened the block closed by the "}" at statement i + 1.
RECURSIVE opener(_, _, _)
opener(toks, i, depth) ==
  IF i < 1 THEN 0
  ELSE CASE toks[i] = END -> opener(toks, i - 1, depth + 1)
         [] toks[i] = CATCH -> IF depth = 0 THEN i ELSE opener(toks, i - 1, depth)
         [] toks[i] = TRY -> opener(toks, i - 1, depth - 1)
         [] IsFor(toks[i]) -> IF depth = 0 THEN i ELSE opener(toks, i - 1, depth - 1)
         [] OTHER -> opener(toks, i - 1, depth)

\* The number of loop bodies statement i lies in.
forDepth(toks, i) ==
  Cardinality({k \in 1..(i - 1) : IsFor(toks[k]) /\ findEnd(toks, k + 1, 0) >= i})

\* Values a program can throw, and JavaScript's error.message of each.
ErrorObject(message) == [kind |-> "Error", message |-> message]
NullValue == [kind |-> "null"]
StringValue(s) == [kind |-> "string", value |-> s]

IsNullish(v) == v.kind = "null"

messageOf(v) == IF v.kind = "Error" THEN v.message ELSE Undefined

SyntaxErrorMessage == "SyntaxError: Unexpected token"
TypeErrorMessage == "TypeError: Cannot read properties of null (reading 'message')"
UnsupportedMessage == "Only JavaScript execution is supported in browser"

BreakpointMessage(lineNum) == "BREAKPOINT at line " \o ToString(lineNum)

(***************************************************************************)
(* The Execution State and the hooks that write it.                        *)
(***************************************************************************)
NoVariables == [n \in {} |-> 0]

FreshExecutionState ==
  [currentLine |-> 0, variables |-> NoVariables, callStack |-> <<>>,
   executionHistory |-> <<>>, breakpoints |-> {}, isPaused |-> FALSE, step |-> 0]

resetKeepsBreakpoints(old) ==
  [FreshExecutionState EXCEPT !.breakpoints = old.breakpoints]

resetKeepsPaused(old) ==
  [FreshExecutionState EXCEPT !.isPaused = old.isPaused]

resetKeepsHistory(old) ==
  [FreshExecutionState EXCEPT !.executionHistory = old.executionHistory]

\* reset(): the engine's state object is replaced by a new one
resetState(old) == FreshExecutionState

lineEntryWithoutVariables(es, lineNum) ==
  [step |-> es.step, type |-> "line", line |-> lineNum, variables |-> NoVariables]

lineEntry(es, lineNum) ==
  [step |-> es.step, type |-> "line", line |-> lineNum, variables |-> es.variables]

trackHookKeepsCurrentLine(es, lineNum) ==
  LET visited == [es EXCEPT !.executionHistory = Append(@, lineEntry(es, lineNum)),
                            !.step = @ + 1]
  IN  IF lineNum \in es.breakpoints
        THEN [state |-> [visited EXCEPT !.isPaused = TRUE],
              throws |-> <<ErrorObject(BreakpointMessage(lineNum))>>]
        ELSE [state |-> visited, throws |-> <<>>]

\* __track(lineNum): the state it leaves and the value it throws, if any
trackHook(es, lineNum) ==
  LET visited == [es EXCEPT !.currentLine = lineNum,
                            !.executionHistory = Append(@, lineEntry(es, lineNum)),
                            !.step = @ + 1]
  IN  IF lineNum \in es.breakpoints
        THEN [state |-> [visited EXCEPT !.isPaused = TRUE],
              throws |-> <<ErrorObject(BreakpointMessage(lineNum))>>]
        ELSE [state |-> visited, throws |-> <<>>]

captureVarFirstWriteWins(es, name, value) ==
  [es EXCEPT !.variables = [n \in DOMAIN @ \cup {name} |->
                              IF n \in DOMAIN @ THEN @[n] ELSE value],
             !.executionHistory = Append(@, [step |-> es.step, type |-> "variable",
                                             name |-> name, value |-> value,
                                             line |-> es.currentLine]),
             !.step = @ + 1]

\* __captureVar(name, value)
captureVarHook(es, name, value) ==
  [es EXCEPT !.variables = [n \in DOMAIN @ \cup {name} |->
                              IF n = name THEN value ELSE @[n]],
             !.executionHistory = Append(@, [step |-> es.step, type |-> "variable",
                                             name |-> name, value |-> value,
                                             line |-> es.currentLine]),
             !.step = @ + 1]

\* console.log(...args)
consoleLogHook(es, output) ==
  [es EXCEPT !.executionHistory = Append(@, [step |-> es.step, type |-> "console",
                                             output |-> output,
                                             line |-> es.currentLine]),
             !.step = @ + 1]

catchBlockClearsTrace(es, error) ==
  IF IsNullish(error)
    THEN [state |-> [es EXCEPT !.step = @ + 1],
          result |-> [kind |-> "rejected", value |-> TypeErrorMessage]]
    ELSE [state |-> [es EXCEPT !.executionHistory =
                                 <<[step |-> es.step, type |-> "error",
                                    error |-> messageOf(error),
                                    line |-> es.currentLine]>>,
                               !.step = @ + 1],
          result |-> [kind |-> "error", value |-> messageOf(error)]]

\* The catch block of execute().  The entry's fields are evaluated in order:
\* step++ first, then error.message, which itself throws a TypeError when the
\* thrown value is null; the push and the return are then never reached.
catchBlock(es, error) ==
  IF IsNullish(error)
    THEN [state |-> [es EXCEPT !.step = @ + 1],
          result |-> [kind |-> "rejected", value |-> TypeErrorMessage]]
    ELSE [state |-> [es EXCEPT !.executionHistory =
                                 Append(@, [step |-> es.step, type |-> "error",
                                            error |-> messageOf(error),
                                            line |-> es.currentLine]),
                               !.step = @ + 1],
          result |-> [kind |-> "error", value |-> messageOf(error)]]

supportsAnyLanguage(tag) == TRUE

\* this.language !== 'javascript' is the refusal of execute()
supported(tag) == tag = "javascript"

(***************************************************************************)
(* The queries: what each returns for a source text and an Execution State.*)
(***************************************************************************)
lineNumbers(lines) == [i \in 1..Len(lines) |-> i]

getNodeType(trimmed) ==
  LET c == chars(trimmed) IN
    IF startsWith(c, <<"f", "u", "n", "c", "t", "i", "o", "n">>) \/ includes(c, <<"=", ">">>)
      THEN "function"
    ELSE IF startsWith(c, <<"i", "f">>) \/ startsWith(c, <<"e", "l", "s", "e">>)
      THEN "conditional"
    ELSE IF startsWith(c, <<"f", "o", "r">>) \/ startsWith(c, <<"w", "h", "i", "l", "e">>)
      THEN "loop"
    ELSE IF startsWith(c, <<"r", "e", "t", "u", "r", "n">>) THEN "return"
    ELSE IF includes(c, <<"=">>) /\ ~includes(c, <<"=", "=">>) THEN "assignment"
    ELSE "statement"

flowSkipsEmptyOnly(line) == line = <<>>

\* if (trimmed === '') return;
flowSkips(line) == trim(line) = <<>>

executedIsCurrentLine(es, lineNum) == es.currentLine = lineNum

executedIsLastEntry(es, lineNum) ==
  /\ es.executionHistory # <<>>
  /\ es.executionHistory[Len(es.executionHistory)].line = lineNum

\* this.executionState.executionHistory.some(h => h.line === lineNum)
executedFlag(es, lineNum) ==
  \E k \in 1..Len(es.executionHistory) : es.executionHistory[k].line = lineNum

flowNode(codeLines, es, lineNum) ==
  LET trimmed == trim(codeLines[lineNum]) IN
    [id |-> lineNum, line |-> lineNum, code |-> trimmed, type |-> getNodeType(trimmed),
     executed |-> executedFlag(es, lineNum)]

\* idx > 0 && !trimmed.startsWith('}') && !trimmed.startsWith('else'), idx from 0
flowHasEdge(codeLines, lineNum) ==
  LET idx == lineNum - 1
      trimmed == chars(trim(codeLines[lineNum]))
  IN  idx > 0 /\ ~startsWith(trimmed, <<"}">>) /\ ~startsWith(trimmed, <<"e", "l", "s", "e">>)

getExecutionFlow(text, es) ==
  LET codeLines == split(text)
      nodeLines == SelectSeq(lineNumbers(codeLines),
                             LAMBDA lineNum : ~flowSkips(codeLines[lineNum]))
      edgeLines == SelectSeq(nodeLines, LAMBDA lineNum : flowHasEdge(codeLines, lineNum))
  IN  [nodes |-> [k \in 1..Len(nodeLines) |-> flowNode(codeLines, es, nodeLines[k])],
       edges |-> [k \in 1..Len(edgeLines) |->
                    [from |-> edgeLines[k] - 1, to |-> edgeLines[k]]]]

variableStatesWithConsole(es) ==
  LET captures == SelectSeq(es.executionHistory,
                            LAMBDA entry : entry.type \in {"variable", "console"})
  IN  [k \in 1..Len(captures) |->
         [step |-> captures[k].step, line |-> captures[k].line,
          variable |-> IF captures[k].type = "variable" THEN captures[k].name
                       ELSE Undefined,
          value |-> IF captures[k].type = "variable" THEN captures[k].value
                    ELSE Undefined]]

getVariableStates(es) ==
  LET captures == SelectSeq(es.executionHistory, LAMBDA entry : entry.type = "variable")
  IN  [k \in 1..Len(captures) |->
         [step |-> captures[k].step, line |-> captures[k].line,
          variable |-> captures[k].name, value |-> captures[k].value]]

\* getErrorTimeline(): the entries tagged error or warning, in history order
getErrorTimeline(es) ==
  SelectSeq(es.executionHistory, LAMBDA e : e.type = "error" \/ e.type = "warning")

\* lineExecutionCounts of analyzePerformance: visits per visited line
lineExecutionCounts(es) ==
  LET visits == SelectSeq(es.executionHistory, LAMBDA entry : entry.type = "line")
      visited == {visits[k].line : k \in 1..Len(visits)}
  IN  [line \in visited |-> Cardinality({k \in 1..Len(visits) : visits[k].line = line})]

\* Object.entries of an object with integer keys: ascending key order
RECURSIVE entries(_)
entries(counts) ==
  IF DOMAIN counts = {} THEN <<>>
  ELSE LET line == CHOOSE l \in DOMAIN counts : \A m \in DOMAIN counts : l <= m
       IN  <<<<line, counts[line]>>>>
             \o entries([l \in DOMAIN counts \ {line} |-> counts[l]])

HotspotThreshold == 10

isHotspotFromThreshold(count) == count >= HotspotThreshold

\* .filter(([line, count]) => count > 10)
isHotspot(count) == count > HotspotThreshold

\* .sort((a, b) => b[1] - a[1]): stable, larger counts first
RECURSIVE sortByCount(_)
sortByCount(pairs) ==
  IF pairs = <<>> THEN <<>>
  ELSE LET sorted == sortByCount(SubSeq(pairs, 1, Len(pairs) - 1))
           last == pairs[Len(pairs)]
           before == SelectSeq(sorted, LAMBDA p : p[2] >= last[2])
           after == SelectSeq(sorted, LAMBDA p : p[2] < last[2])
       IN  before \o <<last>> \o after

\* a / b of two numbers: no exception, NaN or Infinity when b is 0
quotient(a, b) ==
  IF b = 0 THEN [kind |-> IF a = 0 THEN "NaN" ELSE "Infinity", num |-> a, den |-> b]
  ELSE [kind |-> "number", num |-> a, den |-> b]

analyzePerformance(text, es) ==
  LET codeLines == split(text)
      kept == SelectSeq(entries(lineExecutionCounts(es)), LAMBDA p : isHotspot(p[2]))
      ordered == sortByCount(kept)
  IN  [totalSteps |-> es.step,
       hotspots |-> [k \in 1..Len(ordered) |->
                       [line |-> ordered[k][1], executionCount |-> ordered[k][2],
                        code |-> IF ordered[k][1] <= Len(codeLines)
                                   THEN codeLines[ordered[k][1]] ELSE Undefined]],
       avgStepsPerLine |-> quotient(es.step, Len(codeLines))]

(***************************************************************************)
(* Inputs: the source texts and language tags given to setCode.            *)
(***************************************************************************)
Sources ==
  { <<>>,
    <<CAPX1, NL, CAPY2, NL, LOG>>,
    <<SLASH, SLASH, NOP, NL, TAB, NL, SP, CAPX2>>,
    <<LOG, NL, SP, SLASH, SLASH, NL, THROWERR>>,
    <<CAPX1, NL, THROWNULL>>,
    <<THROWSTR>>,
    <<NOP, NL, RET, NL, LOG>>,
    <<TRY, NL, CAPX1, NL, CATCH, SP, LOG, SP, END>>,
    <<NOP, NL, OPENPAREN>>,
    <<CAPX2, SP, CAPX1>>,
    <<FOR11, NL, NOP, END, NL, FOR12, NL, NOP, END, NL, FOR10, NL, NOP, END>> }

Languages == {"javascript", "python"}

\* Line numbers the instrumented sources can pass to the tracking hook.
SourceLines ==
  1..(CHOOSE n \in 1..9 : /\ \E s \in Sources : Len(split(s)) = n
                          /\ \A s \in Sources : Len(split(s)) <= n)

captureArgs(tok) ==
  CASE tok = CAPX1 -> [name |-> "x", value |-> 1]
    [] tok = CAPX2 -> [name |-> "x", value |-> 2]
    [] tok = CAPY2 -> [name |-> "y", value |-> 2]

thrownBy(tok) ==
  CASE tok = THROWERR -> ErrorObject("boom")
    [] tok = THROWNULL -> NullValue
    [] tok = THROWSTR -> StringValue("oops")

NoResult == [kind |-> "none", value |-> Undefined]
NoRun == [start |-> 0, hit |-> {}, raised |-> FALSE, failures |-> <<>>]
NoReturn == [op |-> "none", value |-> Undefined, reset |-> FALSE]

\* VRDebugAssistant as constructed
InitApp ==
  /\ currentCode = <<>>
  /\ currentLanguage = "javascript"
  /\ breakpoints = <<>>
  /\ exported = <<>>
  /\ outcomes = <<>>

\* LiveExecutionVisualizer as constructed
InitVisualizer ==
  /\ isPlaying = FALSE
  /\ isPaused = FALSE
  /\ currentStep = 0
  /\ executionSteps = <<>>
  /\ executionTimer = 0
  /\ timers = {}
  /\ timersSet = 0
  /\ errorDisplayed = <<>>

Init ==
  /\ code = <<>>
  /\ language = "javascript"
  /\ executionState = FreshExecutionState
  /\ pc = "idle"
  /\ instrumentedCode = <<>>
  /\ ip = 0
  /\ completion = <<>>
  /\ result = NoResult
  /\ lastOp = [name |-> "constructor", args |-> <<>>]
  /\ run = NoRun
  /\ loopVars = <<>>
  /\ returned = NoReturn
  /\ resultState = "none"
  /\ InitApp
  /\ InitVisualizer

(***************************************************************************)
(* Public operations.  Callers await execute() before the next call        *)
(* (enhanced-main.js line 393), so they act only while no run is going.    *)
(***************************************************************************)
setCode(source, tag) ==
  /\ pc = "idle"
  /\ code' = source
  /\ language' = tag
  /\ executionState' = resetState(executionState)
  /\ lastOp' = [name |-> "setCode", args |-> <<source, tag>>]
  /\ run' = NoRun
  /\ returned' = NoReturn
  /\ UNCHANGED <<pc, instrumentedCode, ip, completion, result, loopVars>>
  /\ resultState' = IF resultState = "engine" THEN "dropped" ELSE resultState
  /\ UNCHANGED <<appVars, vizVars>>

reset ==
  /\ pc = "idle"
  /\ executionState' = resetState(executionState)
  /\ lastOp' = [name |-> "reset", args |-> <<>>]
  /\ run' = NoRun
  /\ returned' = IF returned.op = "none" THEN NoReturn ELSE [returned EXCEPT !.reset = TRUE]
  /\ UNCHANGED <<code, language, pc, instrumentedCode, ip, completion, result, loopVars>>
  /\ resultState' = IF resultState = "engine" THEN "dropped" ELSE resultState
  /\ UNCHANGED <<appVars, vizVars>>

addBreakpointToggles(lineNumber) ==
  /\ pc = "idle"
  /\ executionState' = [executionState EXCEPT !.breakpoints =
                          IF lineNumber \in @ THEN @ \ {lineNumber} ELSE @ \cup {lineNumber}]
  /\ lastOp' = [name |-> "addBreakpoint", args |-> <<lineNumber>>]
  /\ UNCHANGED <<code, language, pc, instrumentedCode, ip, completion, result, run,
                 loopVars, returned>>
  /\ UNCHANGED <<resultState, appVars, vizVars>>

addBreakpoint(lineNumber) ==
  /\ pc = "idle"
  /\ executionState' = [executionState EXCEPT !.breakpoints = @ \cup {lineNumber}]
  /\ lastOp' = [name |-> "addBreakpoint", args |-> <<lineNumber>>]
  /\ UNCHANGED <<code, language, pc, instrumentedCode, ip, completion, result, run,
                 loopVars, returned>>
  /\ UNCHANGED <<resultState, appVars, vizVars>>

removeBreakpoint(lineNumber) ==
  /\ pc = "idle"
  /\ executionState' = [executionState EXCEPT !.breakpoints = @ \ {lineNumber}]
  /\ lastOp' = [name |-> "removeBreakpoint", args |-> <<lineNumber>>]
  /\ UNCHANGED <<code, language, pc, instrumentedCode, ip, completion, result, run,
                 loopVars, returned>>
  /\ UNCHANGED <<resultState, appVars, vizVars>>

stepNextDisarmsCurrentLine ==
  /\ pc = "idle"
  /\ executionState' = [executionState EXCEPT !.isPaused = FALSE,
                                               !.breakpoints = @ \ {executionState.currentLine}]
  /\ lastOp' = [name |-> "stepNext", args |-> <<>>]
  /\ UNCHANGED <<code, language, pc, instrumentedCode, ip, completion, result, run,
                 loopVars, returned>>
  /\ UNCHANGED <<resultState, appVars, vizVars>>

stepNext ==
  /\ pc = "idle"
  /\ executionState' = [executionState EXCEPT !.isPaused = FALSE]
  /\ lastOp' = [name |-> "stepNext", args |-> <<>>]
  /\ UNCHANGED <<code, language, pc, instrumentedCode, ip, completion, result, run,
                 loopVars, returned>>
  /\ UNCHANGED <<resultState, appVars, vizVars>>

\* The queries read the engine and give their caller a value.
queryExecutionFlow ==
  /\ pc = "idle"
  /\ returned' = [op |-> "getExecutionFlow", reset |-> FALSE,
                  value |-> getExecutionFlow(code, executionState)]
  /\ lastOp' = [name |-> "getExecutionFlow", args |-> <<>>]
  /\ UNCHANGED <<code, language, executionState, pc, instrumentedCode, ip, completion,
                 result, run, loopVars>>
  /\ UNCHANGED <<resultState, appVars, vizVars>>

queryVariableStates ==
  /\ pc = "idle"
  /\ returned' = [op |-> "getVariableStates", reset |-> FALSE,
                  value |-> getVariableStates(executionState)]
  /\ lastOp' = [name |-> "getVariableStates", args |-> <<>>]
  /\ UNCHANGED <<code, language, executionState, pc, instrumentedCode, ip, completion,
                 result, run, loopVars>>
  /\ UNCHANGED <<resultState, appVars, vizVars>>

queryErrorTimelineResumes ==
  /\ pc = "idle"
  /\ returned' = [op |-> "getErrorTimeline", reset |-> FALSE,
                  value |-> getErrorTimeline(executionState)]
  /\ lastOp' = [name |-> "getErrorTimeline", args |-> <<>>]
  /\ executionState' = [executionState EXCEPT !.isPaused = FALSE]
  /\ UNCHANGED <<code, language, pc, instrumentedCode, ip, completion,
                 result, run, loopVars>>
  /\ UNCHANGED <<resultState, appVars, vizVars>>

queryErrorTimeline ==
  /\ pc = "idle"
  /\ returned' = [op |-> "getErrorTimeline", reset |-> FALSE,
                  value |-> getErrorTimeline(executionState)]
  /\ lastOp' = [name |-> "getErrorTimeline", args |-> <<>>]
  /\ UNCHANGED <<code, language, executionState, pc, instrumentedCode, ip, completion,
                 result, run, loopVars>>
  /\ UNCHANGED <<resultState, appVars, vizVars>>

queryPerformance ==
  /\ pc = "idle"
  /\ returned' = [op |-> "analyzePerformance", reset |-> FALSE,
                  value |-> analyzePerformance(code, executionState)]
  /\ lastOp' = [name |-> "analyzePerformance", args |-> <<>>]
  /\ UNCHANGED <<code, language, executionState, pc, instrumentedCode, ip, completion,
                 result, run, loopVars>>
  /\ UNCHANGED <<resultState, appVars, vizVars>>

\* execute() up to the call of the evaluated function
execute ==
  /\ pc = "idle"
  /\ executionState.step < MaxSteps
  /\ lastOp' = [name |-> "execute", args |-> <<>>]
  /\ returned' = NoReturn
  /\ UNCHANGED loopVars
  /\ IF ~supported(language)
       THEN /\ result' = [kind |-> "error", value |-> UnsupportedMessage]
            /\ run' = [NoRun EXCEPT !.failures = run.failures,
                                    !.start = Len(executionState.executionHistory)]
            /\ UNCHANGED <<code, language, executionState, pc, instrumentedCode, ip,
                           completion>>
       ELSE /\ instrumentedCode' = instrumentCode(code)
            /\ result' = NoResult
            /\ IF compiles(instrumentedCode')
                 THEN /\ pc' = "running"
                      /\ ip' = 1
                      /\ completion' = <<>>
                      /\ run' = [NoRun EXCEPT
                                   !.failures = run.failures,
                                   !.start = Len(executionState.executionHistory)]
                 ELSE /\ pc' = "thrown"
                      /\ ip' = 0
                      /\ completion' = <<ErrorObject(SyntaxErrorMessage)>>
                      /\ run' = [NoRun EXCEPT
                                   !.failures = run.failures,
                                   !.start = Len(executionState.executionHistory),
                                   !.raised = TRUE]
            /\ UNCHANGED <<code, language, executionState>>
  /\ resultState' = IF ~supported(language) THEN "engine" ELSE resultState
  /\ UNCHANGED <<appVars, vizVars>>

(***************************************************************************)
(* The evaluated function, one statement per step.                         *)
(***************************************************************************)
body == statements(instrumentedCode)

atStatement(tok) == pc = "running" /\ ip <= Len(body) /\ body[ip] = tok

\* A value thrown at the current statement goes to the enclosing catch clause of
\* the program, or out of the function to the catch block of execute().
raise(value) ==
  LET h == findHandler(body, ip + 1, 0) IN
    IF h = 0
      THEN /\ pc' = "thrown" /\ completion' = <<value>> /\ ip' = ip
           /\ loopVars' = <<>>
      ELSE /\ pc' = pc /\ completion' = completion /\ ip' = h + 1
           /\ loopVars' = SubSeq(loopVars, 1, forDepth(body, h + 1))

__track(lineNum) ==
  /\ atStatement(TrackCall(lineNum))
  /\ LET hook == trackHook(executionState, lineNum) IN
       /\ executionState' = hook.state
       /\ IF hook.throws # <<>>
            THEN /\ raise(hook.throws[1])
                 /\ run' = [run EXCEPT !.hit = @ \cup {lineNum}]
            ELSE /\ ip' = ip + 1
                 /\ UNCHANGED <<pc, completion, run, loopVars>>
  /\ UNCHANGED <<code, language, instrumentedCode, result, lastOp, returned>>
  /\ UNCHANGED <<resultState, appVars, vizVars>>

__captureVar(tok) ==
  /\ atStatement(tok)
  /\ executionState' =
       captureVarHook(executionState, captureArgs(tok).name, captureArgs(tok).value)
  /\ ip' = ip + 1
  /\ UNCHANGED <<code, language, pc, instrumentedCode, completion, result, lastOp, run,
                 loopVars, returned>>
  /\ UNCHANGED <<resultState, appVars, vizVars>>

consoleLog ==
  /\ atStatement(LOG)
  /\ executionState' = consoleLogHook(executionState, "hi")
  /\ ip' = ip + 1
  /\ UNCHANGED <<code, language, pc, instrumentedCode, completion, result, lastOp, run,
                 loopVars, returned>>
  /\ UNCHANGED <<resultState, appVars, vizVars>>

throwStatement(tok) ==
  /\ atStatement(tok)
  /\ raise(thrownBy(tok))
  /\ run' = [run EXCEPT !.raised = TRUE]
  /\ UNCHANGED <<code, language, executionState, instrumentedCode, result, lastOp,
                 returned>>
  /\ UNCHANGED <<resultState, appVars, vizVars>>

\* "0;" and "try{" pass control on; "}catch(e){" met at the end of its try block
\* skips the catch clause.
plainStatement(tok) ==
  /\ atStatement(tok)
  /\ ip' = IF tok = CATCH THEN findEnd(body, ip + 1, 0) + 1 ELSE ip + 1
  /\ UNCHANGED <<code, language, executionState, pc, instrumentedCode, completion,
                 result, lastOp, run, loopVars, returned>>
  /\ UNCHANGED <<resultState, appVars, vizVars>>

\* for(let i=0;i<n;i++){ : i = 0 and the first test of i < n
forStatement(tok) ==
  /\ atStatement(tok)
  /\ IF 0 < loopBound(tok)
       THEN ip' = ip + 1 /\ loopVars' = Append(loopVars, 0)
       ELSE ip' = findEnd(body, ip + 1, 0) + 1 /\ loopVars' = loopVars
  /\ UNCHANGED <<code, language, executionState, pc, instrumentedCode, completion,
                 result, lastOp, run, returned>>
  /\ UNCHANGED <<resultState, appVars, vizVars>>

\* "}": the end of a catch clause passes control on; the end of a loop body does
\* i++ and the test of i < n, and goes back to the start of the body or on.
blockEnd ==
  /\ atStatement(END)
  /\ LET o == opener(body, ip - 1, 0) IN
       IF o # 0 /\ IsFor(body[o])
         THEN LET i == loopVars[Len(loopVars)] + 1 IN
                IF i < loopBound(body[o])
                  THEN ip' = o + 1 /\ loopVars' = [loopVars EXCEPT ![Len(loopVars)] = i]
                  ELSE ip' = ip + 1 /\ loopVars' = SubSeq(loopVars, 1, Len(loopVars) - 1)
         ELSE ip' = ip + 1 /\ loopVars' = loopVars
  /\ UNCHANGED <<code, language, executionState, pc, instrumentedCode, completion,
                 result, lastOp, run, returned>>
  /\ UNCHANGED <<resultState, appVars, vizVars>>

\* What the caller of executeCode has seen: the outcome of its first finished
\* call, and after that the outcome of its latest one.
recordOutcome(res, es) ==
  IF lastOp.name # "executeCode" THEN outcomes
  ELSE IF outcomes = <<>> THEN <<[result |-> res, state |-> es]>>
  ELSE <<outcomes[1], [result |-> res, state |-> es]>>

\* return { success: true, result, state }
executeReturn ==
  /\ pc = "running"
  /\ IF ip > Len(body) THEN TRUE ELSE body[ip] = RET
  /\ result' = [kind |-> "success", value |-> IF ip > Len(body) THEN Undefined ELSE 7]
  /\ pc' = "idle"
  /\ instrumentedCode' = <<>>
  /\ ip' = 0
  /\ completion' = <<>>
  /\ loopVars' = <<>>
  /\ UNCHANGED <<code, language, executionState, lastOp, run, returned>>
  /\ resultState' = "engine"
  /\ outcomes' = recordOutcome(result', executionState')
  /\ UNCHANGED <<sessionVars, vizVars>>

\* catch (error) { ... }
executeCatch ==
  /\ pc = "thrown"
  /\ LET c == catchBlock(executionState, completion[1]) IN
       /\ executionState' = c.state
       /\ result' = c.result
  /\ pc' = "idle"
  /\ instrumentedCode' = <<>>
  /\ ip' = 0
  /\ completion' = <<>>
  /\ run' = [run EXCEPT !.failures =
                 Append(@, [message |-> catchBlock(executionState, completion[1]).result.value,
                            line |-> executionState.currentLine])]
  /\ UNCHANGED <<code, language, lastOp, loopVars, returned>>
  /\ resultState' = IF IsNullish(completion[1]) THEN resultState ELSE "engine"
  /\ outcomes' = recordOutcome(result', executionState')
  /\ UNCHANGED <<sessionVars, vizVars>>

Range(list) == {list[i] : i \in DOMAIN list}

\* VRDebugAssistant.executeCode / continueExecution up to the await: the
\* refusals, then setCode(currentCode, currentLanguage), addBreakpoint for
\* every breakpoint of the application, and the call of execute().  What
\* follows the await displays the result.
executeCode ==
  /\ pc = "idle"
  /\ IF currentCode = <<>> \/ currentLanguage # "javascript"
       THEN UNCHANGED vars
       ELSE LET armed == [resetState(executionState) EXCEPT
                            !.breakpoints = @ \cup Range(breakpoints)]
            IN  /\ code' = currentCode
                /\ language' = currentLanguage
                /\ executionState' = armed
                /\ lastOp' = [name |-> "executeCode", args |-> <<>>]
                /\ returned' = NoReturn
                /\ resultState' = IF resultState = "engine" THEN "dropped" ELSE resultState
                /\ instrumentedCode' = instrumentCode(currentCode)
                /\ result' = NoResult
                /\ IF compiles(instrumentedCode')
                     THEN /\ pc' = "running"
                          /\ ip' = 1
                          /\ completion' = <<>>
                          /\ run' = NoRun
                     ELSE /\ pc' = "thrown"
                          /\ ip' = 0
                          /\ completion' = <<ErrorObject(SyntaxErrorMessage)>>
                          /\ run' = [NoRun EXCEPT !.raised = TRUE]
                /\ UNCHANGED <<loopVars, appVars, vizVars>>

Next ==
  \/ \E source \in Sources, tag \in Languages : setCode(source, tag)
  \/ reset
  \/ \E lineNumber \in 1..MaxLineNumber : addBreakpoint(lineNumber)
  \/ \E lineNumber \in 1..MaxLineNumber : removeBreakpoint(lineNumber)
  \/ stepNext
  \/ queryExecutionFlow
  \/ queryVariableStates
  \/ queryErrorTimeline
  \/ queryPerformance
  \/ execute
  \/ \E lineNum \in SourceLines : __track(lineNum)
  \/ \E tok \in {CAPX1, CAPX2, CAPY2} : __captureVar(tok)
  \/ consoleLog
  \/ \E tok \in {THROWERR, THROWNULL, THROWSTR} : throwStatement(tok)
  \/ \E tok \in {NOP, TRY, CATCH} : plainStatement(tok)
  \/ \E tok \in {FOR10, FOR11, FOR12} : forStatement(tok)
  \/ blockEnd
  \/ executeReturn
  \/ executeCatch

Spec == Init /\ [][Next]_vars

(***************************************************************************)
(* instrumentCode on its own: every text of at most MaxTextLen symbols     *)
(* over spaces, slashes, newlines and a statement.                         *)
(***************************************************************************)
TextAlphabet == {SP, SLASH, NL, NOP}

Texts == UNION {[1..n -> TextAlphabet] : n \in 0..MaxTextLen}

InitInstrument ==
  /\ code \in Texts
  /\ language = "javascript"
  /\ executionState = FreshExecutionState
  /\ pc = "idle"
  /\ instrumentedCode = <<>>
  /\ ip = 0
  /\ completion = <<>>
  /\ result = NoResult
  /\ lastOp = [name |-> "constructor", args |-> <<>>]
  /\ run = NoRun
  /\ loopVars = <<>>
  /\ returned = NoReturn
  /\ resultState = "none"
  /\ InitApp
  /\ InitVisualizer

\* const instrumentedCode = this.instrumentCode(this.code)
instrument ==
  /\ pc = "idle"
  /\ instrumentedCode' = instrumentCode(code)
  /\ pc' = "instrumented"
  /\ UNCHANGED <<code, language, executionState, ip, completion, result, lastOp, run,
                 loopVars, returned>>
  /\ UNCHANGED <<resultState, appVars, vizVars>>

NextInstrument == instrument

SpecInstrument == InitInstrument /\ [][NextInstrument]_vars

(***************************************************************************)
(* getExecutionFlow on its own: the engine after setCode of any text of at *)
(* most MaxTextLen symbols over spaces, newlines, a statement, a closing   *)
(* brace and an else.                                                      *)
(***************************************************************************)
FlowAlphabet == {SP, NL, NOP, END, ELSEOPEN}

FlowTexts == UNION {[1..n -> FlowAlphabet] : n \in 0..MaxTextLen}

InitFlow ==
  /\ code \in FlowTexts
  /\ language = "javascript"
  /\ executionState = FreshExecutionState
  /\ pc = "idle"
  /\ instrumentedCode = <<>>
  /\ ip = 0
  /\ completion = <<>>
  /\ result = NoResult
  /\ lastOp = [name |-> "setCode", args |-> <<code, "javascript">>]
  /\ run = NoRun
  /\ loopVars = <<>>
  /\ returned = NoReturn
  /\ resultState = "none"
  /\ InitApp
  /\ InitVisualizer

NextFlow == queryExecutionFlow

SpecFlow == InitFlow /\ [][NextFlow]_vars

(***************************************************************************)
(* Re-running: an application holding a source, a language tag and a set   *)
(* of breakpoints calls executeCode again and again; between two calls the *)
(* engine may be stepped or run again on what the last run left.           *)
(***************************************************************************)
\* The breakpoints of the application, a Set, in the orders they can be added in.
BreakpointLists ==
  {list \in UNION {[1..n -> 1..MaxLineNumber] : n \in 0..MaxLineNumber} :
     \A i, j \in DOMAIN list : i # j => list[i] # list[j]}

InitRerun ==
  /\ code = <<>>
  /\ language = "javascript"
  /\ executionState = FreshExecutionState
  /\ pc = "idle"
  /\ instrumentedCode = <<>>
  /\ ip = 0
  /\ completion = <<>>
  /\ result = NoResult
  /\ lastOp = [name |-> "constructor", args |-> <<>>]
  /\ run = NoRun
  /\ loopVars = <<>>
  /\ returned = NoReturn
  /\ resultState = "none"
  /\ currentCode \in Sources
  /\ currentLanguage \in Languages
  /\ breakpoints \in BreakpointLists
  /\ exported = <<>>
  /\ outcomes = <<>>
  /\ InitVisualizer

NextRerun ==
  \/ executeCode
  \/ stepNext
  \/ execute
  \/ \E lineNum \in SourceLines : __track(lineNum)
  \/ \E tok \in {CAPX1, CAPX2, CAPY2} : __captureVar(tok)
  \/ consoleLog
  \/ \E tok \in {THROWERR, THROWNULL, THROWSTR} : throwStatement(tok)
  \/ \E tok \in {NOP, TRY, CATCH} : plainStatement(tok)
  \/ \E tok \in {FOR10, FOR11, FOR12} : forStatement(tok)
  \/ blockEnd
  \/ executeReturn
  \/ executeCatch

SpecRerun == InitRerun /\ [][NextRerun]_vars

(***************************************************************************)
(* LiveExecutionVisualizer: playback of a trace.  The methods are          *)
(* operators on the visualizer's fields; the commands of the user and the  *)
(* firing of a timeout are the actions.                                    *)
(***************************************************************************)
visualizer ==
  [isPlaying |-> isPlaying, isPaused |-> isPaused, currentStep |-> currentStep,
   executionSteps |-> executionSteps, executionTimer |-> executionTimer,
   timers |-> timers, timersSet |-> timersSet, errorDisplayed |-> errorDisplayed]

assigned(v) ==
  /\ isPlaying' = v.isPlaying
  /\ isPaused' = v.isPaused
  /\ currentStep' = v.currentStep
  /\ executionSteps' = v.executionSteps
  /\ executionTimer' = v.executionTimer
  /\ timers' = v.timers
  /\ timersSet' = v.timersSet
  /\ errorDisplayed' = v.errorDisplayed

becomes(v) ==
  /\ assigned(v)
  /\ UNCHANGED <<engineVars, appVars>>

\* A command of the user: what was displayed before it is no longer at issue.
command == [visualizer EXCEPT !.errorDisplayed = <<>>]

\* clearTimeout(id): a timeout that has fired or was cleared is not pending
clearTimeout(v, id) == [v EXCEPT !.timers = @ \ {id}]

\* pause()
paused(v) ==
  LET flagged == [v EXCEPT !.isPaused = TRUE, !.isPlaying = FALSE]
  IN  IF v.executionTimer # 0 THEN clearTimeout(flagged, v.executionTimer) ELSE flagged

\* stop()
stopped(v) ==
  LET flagged == [v EXCEPT !.isPlaying = FALSE, !.isPaused = FALSE, !.currentStep = 0]
  IN  IF v.executionTimer # 0 THEN clearTimeout(flagged, v.executionTimer) ELSE flagged

\* showError(errorStep): the indicator is drawn, then this.pause()
shownError(v) ==
  paused([v EXCEPT !.errorDisplayed = IF v.isPlaying THEN <<v.currentStep>> ELSE @])

\* executeCurrentStep(): of the step types only error touches the playback
executedCurrentStep(v) ==
  IF v.currentStep + 1 \notin DOMAIN v.executionSteps THEN v
  ELSE IF v.executionSteps[v.currentStep + 1] = "error" THEN shownError(v)
  ELSE v

\* executeNextStep(); setTimeout gives the next id
executedNextStep(v) ==
  IF ~v.isPlaying \/ v.isPaused THEN v
  ELSE IF v.currentStep >= Len(v.executionSteps) THEN stopped(v)
  ELSE LET shown == executedCurrentStep(v)
           id == shown.timersSet + 1
       IN  [shown EXCEPT !.executionTimer = id, !.timers = @ \cup {id}, !.timersSet = id]

StepTypes == {"line", "error"}

StepLists == UNION {[1..n -> StepTypes] : n \in 0..MaxPlaybackSteps}

setExecutionSteps(steps) ==
  /\ steps \in StepLists
  /\ becomes([command EXCEPT !.executionSteps = steps, !.currentStep = 0])

play ==
  /\ ~isPlaying
  /\ timersSet < MaxTimers
  /\ becomes(executedNextStep([command EXCEPT !.isPlaying = TRUE, !.isPaused = FALSE]))

pause ==
  /\ becomes(paused(command))

stop ==
  /\ becomes(stopped(command))

stepForward ==
  /\ currentStep < Len(executionSteps) - 1
  /\ becomes(executedCurrentStep([command EXCEPT !.currentStep = @ + 1]))

stepBackward ==
  /\ currentStep > 0
  /\ becomes(executedCurrentStep([command EXCEPT !.currentStep = @ - 1]))

\* click on the marker of step idx of the timeline
markerClick(idx) ==
  /\ idx + 1 \in DOMAIN executionSteps
  /\ becomes(executedCurrentStep([command EXCEPT !.currentStep = idx]))

\* the callback of a pending timeout runs
timerFires(id) ==
  /\ id \in timers
  /\ timersSet < MaxTimers
  /\ becomes(executedNextStep([clearTimeout(visualizer, id) EXCEPT !.currentStep = @ + 1]))

NextPlayback ==
  \/ \E steps \in StepLists : setExecutionSteps(steps)
  \/ play
  \/ pause
  \/ stop
  \/ stepForward
  \/ stepBackward
  \/ \E idx \in 0..(MaxPlaybackSteps - 1) : markerClick(idx)
  \/ \E id \in 1..MaxTimers : timerFires(id)

SpecPlayback == Init /\ [][NextPlayback]_vars

(***************************************************************************)
(* VRDebugAssistant: the breakpoints of a session, exported and loaded.    *)
(***************************************************************************)
\* What toggleBreakpoint does to the application's Set and the engine's:
\* delete and removeBreakpoint when the application has the line, add and
\* addBreakpoint when it has not.
toggled(s, lineNumber) ==
  IF lineNumber \in Range(s.breakpoints)
    THEN [breakpoints |-> SelectSeq(s.breakpoints, LAMBDA bp : bp # lineNumber),
          engine |-> s.engine \ {lineNumber}]
    ELSE [breakpoints |-> Append(s.breakpoints, lineNumber),
          engine |-> s.engine \cup {lineNumber}]

\* sessionData.breakpoints.forEach(bp => this.toggleBreakpoint(bp))
RECURSIVE toggledEach(_, _)
toggledEach(s, bps) ==
  IF bps = <<>> THEN s ELSE toggledEach(toggled(s, Head(bps)), Tail(bps))

armedSets == [breakpoints |-> breakpoints, engine |-> executionState.breakpoints]

SessionSource == <<NOP, NL, RET, NL, LOG>>

\* Breakpoint lists of session files: lines 1..MaxSessionLine, none twice.
SessionLists ==
  {list \in UNION {[1..n -> 1..MaxSessionLine] : n \in 0..MaxSessionLine} :
     \A i, j \in DOMAIN list : i # j => list[i] # list[j]}

SessionFiles ==
  [code : {SessionSource}, language : {"javascript"}, breakpoints : SessionLists]

toggleBreakpoint(lineNumber) ==
  /\ pc = "idle"
  /\ LET s == toggled(armedSets, lineNumber) IN
       /\ breakpoints' = s.breakpoints
       /\ executionState' = [executionState EXCEPT !.breakpoints = s.engine]
  /\ lastOp' = [name |-> "toggleBreakpoint", args |-> <<lineNumber>>]
  /\ UNCHANGED <<code, language, pc, instrumentedCode, ip, completion, result, run,
                 loopVars, returned, resultState>>
  /\ UNCHANGED <<currentCode, currentLanguage, exported, outcomes, vizVars>>

\* clearSession(): the application's code and breakpoints, executionEngine.reset(),
\* liveExecutionViz.stop()
clearSession ==
  /\ pc = "idle"
  /\ currentCode' = <<>>
  /\ breakpoints' = <<>>
  /\ executionState' = resetState(executionState)
  /\ run' = NoRun
  /\ returned' = IF returned.op = "none" THEN NoReturn ELSE [returned EXCEPT !.reset = TRUE]
  /\ resultState' = IF resultState = "engine" THEN "dropped" ELSE resultState
  /\ lastOp' = [name |-> "clearSession", args |-> <<>>]
  /\ assigned(stopped(command))
  /\ UNCHANGED <<code, language, pc, instrumentedCode, ip, completion, result, loopVars>>
  /\ UNCHANGED <<currentLanguage, exported, outcomes>>

\* exportSession(): breakpoints: Array.from(this.breakpoints)
exportSession ==
  /\ pc = "idle"
  /\ exported' = <<[code |-> currentCode, language |-> currentLanguage,
                    breakpoints |-> breakpoints]>>
  /\ lastOp' = [name |-> "exportSession", args |-> <<>>]
  /\ UNCHANGED <<code, language, executionState, pc, instrumentedCode, ip, completion,
                 result, run, loopVars, returned, resultState>>
  /\ UNCHANGED <<currentCode, currentLanguage, breakpoints, outcomes, vizVars>>

loadSession(sessionData) ==
  /\ pc = "idle"
  /\ currentCode' = sessionData.code
  /\ currentLanguage' = sessionData.language
  /\ LET s == toggledEach(armedSets, sessionData.breakpoints) IN
       /\ breakpoints' = s.breakpoints
       /\ executionState' = [executionState EXCEPT !.breakpoints = s.engine]
  /\ lastOp' = [name |-> "loadSession", args |-> <<sessionData.breakpoints>>]
  /\ UNCHANGED <<code, language, pc, instrumentedCode, ip, completion, result, run,
                 loopVars, returned, resultState>>
  /\ UNCHANGED <<exported, outcomes, vizVars>>

\* loadSession of the data exported last
loadExported ==
  /\ exported # <<>>
  /\ loadSession(exported[1])

NextSession ==
  \/ \E lineNumber \in 1..MaxSessionLine : toggleBreakpoint(lineNumber)
  \/ clearSession
  \/ exportSession
  \/ \E sessionData \in SessionFiles : loadSession(sessionData)
  \/ loadExported

SpecSession == Init /\ [][NextSession]_vars

(***************************************************************************)
(* Properties.                                                             *)
(***************************************************************************)
history == executionState.executionHistory

lineVisits == SelectSeq(history, LAMBDA e : e.type = "line")

\* An execute() call has returned and nothing was called since.
AfterExecute == pc = "idle" /\ lastOp.name = "execute"

\* C1: after any sequence of calls, whatever the program did, step equals the
\* length of executionHistory and the i-th entry (from 0) carries step = i.
C1_StepCountsHistory ==
  pc = "idle" =>
    /\ executionState.step = Len(history)
    /\ \A i \in 1..Len(history) : history[i].step = i - 1

\* C2: when the tracking hook is invoked for an armed line L during a run, the
\* run ends with an error result, isPaused = true, and the last line-visit
\* entry has line L.
C2_ArmedLineHalts ==
  (AfterExecute /\ run.hit # {}) =>
    /\ result.kind = "error"
    /\ executionState.isPaused
    /\ \A L \in run.hit : lineVisits[Len(lineVisits)].line = L

\* C3: a run on the supported language in which no armed line is visited (and
\* the program raises no error of its own) completes normally and leaves
\* isPaused = false, whatever was called on the engine before.
C3_UnarmedRunNotPaused ==
  (AfterExecute /\ language = "javascript" /\ run.hit = {} /\ ~run.raised) =>
    /\ result.kind = "success"
    /\ ~executionState.isPaused

\* C4 as claimed: every line armed before reset() or setCode() is still armed
\* after it.
C4_ResetKeepsBreakpoints ==
  [][lastOp'.name \in {"reset", "setCode"} =>
       executionState.breakpoints \subseteq executionState'.breakpoints]_vars

\* C4 as the code has it: reset() and setCode() leave no line armed; the
\* breakpoint set is emptied with the rest of the Execution State.
C4_ResetClearsBreakpoints ==
  lastOp.name \in {"reset", "setCode"} => executionState.breakpoints = {}

\* A reset that follows a run halted by the breakpoint on line 1.
C4_Witness ==
  /\ lastOp.name = "reset"
  /\ result = [kind |-> "error", value |-> BreakpointMessage(1)]
  /\ executionState.breakpoints = {}

\* C5: after setCode or reset, from any prior state, step = 0, the history is
\* empty, currentLine = 0, variables and callStack are empty and isPaused is
\* false; setCode also stores the source and the language tag it was given.
C5_ResetGivesInitialState ==
  /\ lastOp.name \in {"reset", "setCode"} =>
       /\ executionState.step = 0
       /\ executionState.executionHistory = <<>>
       /\ executionState.currentLine = 0
       /\ DOMAIN executionState.variables = {}
       /\ executionState.callStack = <<>>
       /\ executionState.isPaused = FALSE
  /\ lastOp.name = "setCode" => code = lastOp.args[1] /\ language = lastOp.args[2]

\* setCode of a non-empty source on an engine whose last run halted at line 2.
C5_Witness ==
  /\ lastOp.name = "setCode"
  /\ code # <<>>
  /\ result = [kind |-> "error", value |-> BreakpointMessage(2)]
  /\ executionState.step = 0

\* C6: with an unsupported language tag execute() returns the error at once:
\* no run starts (a run is only ever going on the supported language) and the
\* Execution State is what it was before the call.
C6_UnsupportedLanguageNoRun ==
  /\ [](pc # "idle" => language = "javascript")
  /\ [][(pc = "idle" /\ language # "javascript" /\ lastOp'.name = "execute") =>
          /\ pc' = "idle"
          /\ executionState' = executionState
          /\ result' = [kind |-> "error", value |-> UnsupportedMessage]]_vars

\* execute() refused on a python source with a breakpoint armed.
C6_Witness ==
  /\ AfterExecute
  /\ language = "python"
  /\ code # <<>>
  /\ executionState.breakpoints # {}
  /\ result = [kind |-> "error", value |-> UnsupportedMessage]

\* C7: in every state, between and during operations, currentLine is the line
\* of the latest line-visit entry, and 0 when there is none.
C7_CurrentLineIsLastVisit ==
  executionState.currentLine =
    IF lineVisits = <<>> THEN 0 ELSE lineVisits[Len(lineVisits)].line

\* A run in progress that has visited two different lines and then logged.
C7_Witness ==
  /\ pc = "running"
  /\ Len(lineVisits) >= 2
  /\ lineVisits[1].line # lineVisits[Len(lineVisits)].line
  /\ history[Len(history)].type = "console"
  /\ executionState.currentLine = 3

\* C8: execute() never lets an exception reach its caller: whatever the
\* evaluated source does, the call gives a success result or an error result.
C8_ExecuteAlwaysReturns ==
  AfterExecute => result.kind \in {"success", "error"}

C10_InstrumentPreservesLines ==
  pc = "instrumented" =>
    LET src == split(code)
        out == split(instrumentedCode)
        blank(l) == \A k \in 1..Len(l) : l[k] \in Whitespace
        first(l) == CHOOSE k \in 1..Len(l) :
                      l[k] \notin Whitespace /\ \A j \in 1..(k - 1) : l[j] \in Whitespace
        comment(l) == /\ ~blank(l)
                      /\ first(l) < Len(l)
                      /\ l[first(l)] = SLASH
                      /\ l[first(l) + 1] = SLASH
    IN  /\ Len(out) = Len(src)
        /\ \A i \in 1..Len(src) :
             out[i] = IF blank(src[i]) \/ comment(src[i])
                        THEN src[i]
                        ELSE <<TrackCall(i)>> \o src[i]

\* An indented comment on line 1 passes through, the statement on line 2 is tracked.
C10_Witness ==
  /\ pc = "instrumented"
  /\ code = <<SP, SLASH, SLASH, NL, NOP>>
  /\ instrumentedCode = <<SP, SLASH, SLASH, NL, TrackCall(2), NOP>>

\* What the last call gave, when the call was of the named query and nothing was
\* called since.
JustReturned(op) == pc = "idle" /\ lastOp.name = op /\ returned.op = op

\* The line a position of the source text lies on: one more than the newlines before it.
lineOf(p) == 1 + Cardinality({q \in 1..(p - 1) : code[q] = NL})

lineCount == lineOf(Len(code) + 1)

\* Lines holding something other than whitespace.
nonBlankLines == {lineOf(p) : p \in {q \in 1..Len(code) : code[q] \notin Whitespace \cup {NL}}}

\* C11: the flow graph has one node per non-blank line of the source: as many
\* nodes as non-blank lines, each on a non-blank line within 1..line count, in
\* strictly ascending line order (so pairwise distinct); for the empty source
\* the graph has no node and no edge.
C11_OneNodePerNonBlankLine ==
  JustReturned("getExecutionFlow") =>
    LET nodes == returned.value.nodes IN
      /\ Len(nodes) = Cardinality(nonBlankLines)
      /\ \A k \in 1..Len(nodes) :
           /\ nodes[k].line \in nonBlankLines
           /\ nodes[k].line \in 1..lineCount
           /\ nodes[k].id = nodes[k].line
      /\ \A k \in 1..(Len(nodes) - 1) : nodes[k].line < nodes[k + 1].line
      /\ code = <<>> => returned.value = [nodes |-> <<>>, edges |-> <<>>]

\* Two statements with a whitespace-only line between them give nodes 1 and 3.
C11_Witness ==
  /\ JustReturned("getExecutionFlow")
  /\ code = <<NOP, NL, SP, NL, NOP>>
  /\ Len(returned.value.nodes) = 2
  /\ returned.value.nodes[2].line = 3

\* C12: a node of the flow graph is marked executed exactly when the history
\* holds a line-visit entry of its line: capture, console and error entries
\* alone never mark a line; with an empty history no node is marked.
C12_ExecutedIffLineVisited ==
  JustReturned("getExecutionFlow") =>
    LET nodes == returned.value.nodes IN
      /\ \A k \in 1..Len(nodes) :
           nodes[k].executed <=>
             \E i \in 1..Len(lineVisits) : lineVisits[i].line = nodes[k].line
      /\ history = <<>> => \A k \in 1..Len(nodes) : ~nodes[k].executed

\* A run halted on line 2 of three: capture and error entries are in the history,
\* lines 1 and 2 are marked, line 3 is not.
C12_Witness ==
  /\ JustReturned("getExecutionFlow")
  /\ code = <<CAPX1, NL, CAPY2, NL, LOG>>
  /\ \E i \in 1..Len(history) : history[i].type = "variable"
  /\ \E i \in 1..Len(history) : history[i].type = "error"
  /\ returned.value.nodes[1].executed
  /\ returned.value.nodes[2].executed
  /\ ~returned.value.nodes[3].executed

\* Lines with a line-visit entry among the history entries first..last.
visitedBetween(first, last) ==
  {history[i].line : i \in {j \in first..last : history[j].type = "line"}}

\* Lines visited by the latest execute() call.
visitedInLatestRun == visitedBetween(run.start + 1, Len(history))

precedingNonBlank(l) ==
  IF \E m \in nonBlankLines : m < l
    THEN CHOOSE m \in nonBlankLines : m < l /\ \A n \in nonBlankLines : n < l => n <= m
    ELSE 0

\* Line l begins, after its leading whitespace, with a closing brace or with else.
beginsWithBraceOrElse(l) ==
  LET text == chars(trimStart(split(code)[l]))
  IN  startsWith(text, <<"}">>) \/ startsWith(text, <<"e", "l", "s", "e">>)

\* C14: the edges of the flow graph are exactly one edge per non-blank line that
\* has a non-blank line before it and does not begin with a closing brace or
\* else, from the closest non-blank line before it to it; both ends of every
\* edge are lines of nodes.
C14_EdgesJoinNonBlankLines ==
  JustReturned("getExecutionFlow") =>
    LET edges == returned.value.edges
        nodes == returned.value.nodes
        linked == {l \in nonBlankLines :
                     precedingNonBlank(l) # 0 /\ ~beginsWithBraceOrElse(l)}
        expected == {[from |-> precedingNonBlank(l), to |-> l] : l \in linked}
        nodeLines == {nodes[k].line : k \in 1..Len(nodes)}
    IN  /\ {edges[k] : k \in 1..Len(edges)} = expected
        /\ Len(edges) = Cardinality(expected)
        /\ \A k \in 1..Len(edges) :
             edges[k].from \in nodeLines /\ edges[k].to \in nodeLines

\* The number of line-visit entries of line l in the history.
visitCount(l) ==
  Cardinality({i \in 1..Len(history) : history[i].type = "line" /\ history[i].line = l})

visitedLines == visitedBetween(1, Len(history))

\* C15: the hotspots are exactly the lines with more than 10 line-visit entries,
\* each once and with its number of visits, larger numbers first; with an empty
\* history there is none.
C15_HotspotsAreLinesVisitedOverTen ==
  JustReturned("analyzePerformance") =>
    LET hotspots == returned.value.hotspots IN
      /\ {hotspots[k].line : k \in 1..Len(hotspots)} = {l \in visitedLines : visitCount(l) > 10}
      /\ Len(hotspots) = Cardinality({l \in visitedLines : visitCount(l) > 10})
      /\ \A k \in 1..Len(hotspots) : hotspots[k].executionCount = visitCount(hotspots[k].line)
      /\ \A k \in 1..(Len(hotspots) - 1) :
           hotspots[k].executionCount >= hotspots[k + 1].executionCount
      /\ history = <<>> => hotspots = <<>>

\* Three loops of 11, 12 and 10 rounds over lines 2, 4 and 6: line 4 comes first
\* with 12 visits, then line 2 with 11; line 6, visited 10 times, is no hotspot.
C15_Witness ==
  /\ JustReturned("analyzePerformance")
  /\ visitCount(6) = 10
  /\ Len(returned.value.hotspots) = 2
  /\ returned.value.hotspots[1].line = 4
  /\ returned.value.hotspots[1].executionCount = 12
  /\ returned.value.hotspots[2].line = 2
  /\ returned.value.hotspots[2].executionCount = 11

\* C16: totalSteps is the step counter, which is the number of entries of the
\* history, of every type; avgStepsPerLine is the step counter divided by the
\* number of lines of the source, and is 0 for the empty source.
C16_TotalStepsCountsEntries ==
  JustReturned("analyzePerformance") =>
    LET avg == returned.value.avgStepsPerLine IN
      /\ returned.value.totalSteps = executionState.step
      /\ returned.value.totalSteps = Len(history)
      /\ avg.kind = "number"
      /\ avg.num * lineCount = executionState.step * avg.den
      /\ code = <<>> => avg.num = 0

\* The records are the variable-capture entries of the history, one each, in the
\* order of recording.
RecordsOfCaptures(states, trace) ==
  /\ Len(states) = Cardinality({i \in 1..Len(trace) : trace[i].type = "variable"})
  /\ \A k \in 1..Len(states) :
       \E i \in 1..Len(trace) :
         /\ trace[i].type = "variable"
         /\ states[k] = [step |-> trace[i].step, line |-> trace[i].line,
                          variable |-> trace[i].name, value |-> trace[i].value]
  /\ \A k \in 1..(Len(states) - 1) : states[k].step < states[k + 1].step

\* C17 as stated: getVariableStates returns one record per variable-capture
\* entry in recorded order, and a call returns what the call before it returned
\* whenever no execute() was called in between, whatever else was.
C17_SameStatesWithoutExecute ==
  [][lastOp'.name = "getVariableStates" =>
       /\ RecordsOfCaptures(returned'.value, history')
       /\ returned.op = "getVariableStates" => returned'.value = returned.value]_vars

\* C17 as the code has it: the same, for two calls with no execute(), setCode()
\* or reset() in between.
C17_SameStatesWithoutRunOrReset ==
  [][lastOp'.name = "getVariableStates" =>
       /\ RecordsOfCaptures(returned'.value, history')
       /\ (returned.op = "getVariableStates" /\ ~returned.reset) =>
            returned'.value = returned.value]_vars

\* The captures of x and y of a run halted by the breakpoint on line 3, returned
\* with that breakpoint removed again after the run.
C17_Witness ==
  /\ JustReturned("getVariableStates")
  /\ Len(returned.value) = 2
  /\ returned.value[1].variable = "x"
  /\ returned.value[2].variable = "y"
  /\ run.hit = {3}
  /\ executionState.breakpoints = {}

\* C18: addBreakpoint(l) leaves l armed and removeBreakpoint(l) leaves l unarmed,
\* for any l, within the source or not; each changes nothing else of the
\* Execution State, and nothing at all when l was already armed, respectively
\* unarmed; so adding and then removing l leaves it unarmed.
C18_BreakpointsAreSetOperations ==
  [][/\ lastOp'.name = "addBreakpoint" =>
          LET l == lastOp'.args[1] IN
            /\ executionState' = [executionState EXCEPT !.breakpoints = @ \cup {l}]
            /\ l \in executionState'.breakpoints
            /\ l \in executionState.breakpoints => executionState' = executionState
     /\ lastOp'.name = "removeBreakpoint" =>
          LET l == lastOp'.args[1] IN
            /\ executionState' = [executionState EXCEPT !.breakpoints = @ \ {l}]
            /\ l \notin executionState'.breakpoints
            /\ l \notin executionState.breakpoints => executionState' = executionState
            /\ lastOp = [name |-> "addBreakpoint", args |-> <<l>>] =>
                 executionState'.breakpoints = executionState.breakpoints \ {l}]_vars

\* Line 3 armed on a one-line source after a run, with line 1 armed before.
C18_Witness ==
  /\ pc = "idle"
  /\ lastOp = [name |-> "addBreakpoint", args |-> <<3>>]
  /\ code = <<THROWSTR>>
  /\ history # <<>>
  /\ executionState.breakpoints = {1, 3}

\* Line numbers the tracking hook is never called for: beyond the last line of
\* the source, or of a line that is blank or holds only a comment.
untrackedLines ==
  {l \in 1..MaxLineNumber :
     \/ l > lineCount
     \/ l \notin nonBlankLines
     \/ startsWith(trimStart(split(code)[l]), <<SLASH, SLASH>>)}

\* The Execution State but for its set of breakpoints.
exceptBreakpoints(es) == [es EXCEPT !.breakpoints = {}]

\* C19: a breakpoint on a line that is never tracked never triggers.  No
\* tracking call is made for such a line, so no run halts on it or records a
\* visit of it, and each tracking call of a run throws the same and leaves the
\* same state, breakpoints aside, whether such a line is armed or not: the run
\* gives the result, the history and the isPaused it gives without it.
C19_UntrackedBreakpointNeverTriggers ==
  /\ run.hit \cap untrackedLines = {}
  /\ visitedLines \cap untrackedLines = {}
  /\ (AfterExecute /\ result.kind = "error") =>
       \A u \in untrackedLines : result.value # BreakpointMessage(u)
  /\ \A lineNum \in SourceLines :
       atStatement(TrackCall(lineNum)) =>
         /\ lineNum \notin untrackedLines
         /\ \A u \in untrackedLines :
              LET armed == trackHook([executionState EXCEPT !.breakpoints = @ \cup {u}],
                                     lineNum)
                  unarmed == trackHook([executionState EXCEPT !.breakpoints = @ \ {u}],
                                       lineNum)
              IN  /\ armed.throws = unarmed.throws
                  /\ exceptBreakpoints(armed.state) = exceptBreakpoints(unarmed.state)

\* The comment on line 1 and the blank line 2 armed: the run goes through line 3
\* and returns with isPaused false.
C19_Witness ==
  /\ AfterExecute
  /\ code = <<SLASH, SLASH, NOP, NL, TAB, NL, SP, CAPX2>>
  /\ executionState.breakpoints = {1, 2}
  /\ result.kind = "success"
  /\ ~executionState.isPaused
  /\ visitedInLatestRun = {3}

\* Positions of the variable-capture entries of a name in the history.
capturesOf(name) ==
  {i \in 1..Len(history) : history[i].type = "variable" /\ history[i].name = name}

\* C20: in every state the names in variables are the names with a
\* variable-capture entry in the history, each with the value of its latest
\* such entry; and a call of the capture hook appends one entry to the history,
\* a variable-capture entry on the current line.
C20_VariablesLastWriteWins ==
  /\ [](/\ DOMAIN executionState.variables =
             {history[i].name : i \in {j \in 1..Len(history) : history[j].type = "variable"}}
        /\ \A name \in DOMAIN executionState.variables :
             \E i \in capturesOf(name) :
               /\ \A j \in capturesOf(name) : j <= i
               /\ executionState.variables[name] = history[i].value)
  /\ [][(\E tok \in {CAPX1, CAPX2, CAPY2} : atStatement(tok)) =>
          /\ Len(history') = Len(history) + 1
          /\ SubSeq(history', 1, Len(history)) = history
          /\ history'[Len(history')].type = "variable"
          /\ history'[Len(history')].line = executionState.currentLine
          /\ executionState'.currentLine = executionState.currentLine]_vars

\* x captured as 2 and then as 1 on line 1: two entries, and x is 1.
C20_Witness ==
  /\ AfterExecute
  /\ code = <<CAPX2, SP, CAPX1>>
  /\ Cardinality(capturesOf("x")) = 2
  /\ executionState.variables["x"] = 1
  /\ executionState.currentLine = 1

IsPrefix(shorter, longer) ==
  /\ Len(shorter) <= Len(longer)
  /\ \A i \in 1..Len(shorter) : longer[i] = shorter[i]

\* C21: executionHistory is append-only within one Execution State: every step
\* of every operation other than setCode and reset, the steps of an execute()
\* that ends in an error or a breakpoint halt and of a second execute() without
\* a reset included, leaves the entries recorded so far unchanged and in place
\* as a prefix of the new history.
C21_HistoryIsAppendOnly ==
  [][lastOp'.name \notin {"setCode", "reset"} => IsPrefix(history, history')]_vars

\* A second execute() without a reset has ended in an error, after a first one
\* that ended in an error too, and the first run's entries are still there.
C21_Witness ==
  /\ AfterExecute
  /\ run.start > 0
  /\ history[run.start].type = "error"
  /\ Len(history) > run.start
  /\ history[Len(history)].type = "error"
  /\ result.kind = "error"

Queries == {"getExecutionFlow", "getVariableStates", "getErrorTimeline", "analyzePerformance"}

\* C24: the queries getExecutionFlow(), getVariableStates(), getErrorTimeline()
\* and analyzePerformance() are read-only: each leaves the stored source, the
\* language tag and every field of the Execution State as they were.
C24_QueriesAreReadOnly ==
  [][lastOp'.name \in Queries =>
       /\ code' = code
       /\ language' = language
       /\ executionState' = executionState]_vars

\* getErrorTimeline() has returned the halt entry of a run paused on a
\* breakpoint, and the engine is still paused.
C24_Witness ==
  /\ JustReturned("getErrorTimeline")
  /\ Len(returned.value) > 0
  /\ executionState.isPaused
  /\ executionState.breakpoints # {}

\* The variables as the capture entries before position i of the history give
\* them: each captured name with the value of its latest capture.
variablesBefore(i) ==
  LET caps == {j \in 1..(i - 1) : history[j].type = "variable"}
      latest(n) == CHOOSE j \in caps :
                     /\ history[j].name = n
                     /\ \A k \in caps : history[k].name = n => k <= j
  IN  [n \in {history[j].name : j \in caps} |-> history[latest(n)].value]

\* C27: each line-visit entry carries its own copy of the variables as of that
\* visit: the copy is the last-write-wins mapping of the variable-capture
\* entries before it in the history since the last reset, and no later step
\* other than a reset changes the copy stored in an entry.
C27_LineEntriesCopyVariables ==
  /\ [](\A i \in 1..Len(history) :
          history[i].type = "line" => history[i].variables = variablesBefore(i))
  /\ [][lastOp'.name \notin {"setCode", "reset"} =>
          \A i \in 1..Len(history) :
            history[i].type = "line" =>
              /\ i <= Len(history')
              /\ history'[i].type = "line"
              /\ history'[i].variables = history[i].variables]_vars

\* A line was visited after x had been captured, and y was captured after the
\* visit: the entry holds x alone while the engine's variables hold both.
C27_Witness ==
  /\ AfterExecute
  /\ \E i \in 1..Len(history) :
       /\ history[i].type = "line"
       /\ DOMAIN history[i].variables = {"x"}
       /\ history[i].variables["x"] = 1
  /\ DOMAIN executionState.variables = {"x", "y"}

\* C22 as stated: since the last reset, getErrorTimeline() returns, in run
\* order, one error entry for each execute() call that ended abnormally, with
\* the message that call returned and the line the engine stood on; runs that
\* complete and unsupported-language calls add none.
C22_OneErrorEntryPerFailedRun ==
  JustReturned("getErrorTimeline") =>
    /\ Len(returned.value) = Len(run.failures)
    /\ \A k \in 1..Len(returned.value) :
         /\ k <= Len(run.failures)
         /\ returned.value[k].type = "error"
         /\ returned.value[k].error = run.failures[k].message
         /\ returned.value[k].line = run.failures[k].line

\* The Execution State seen through the state field of the result returned
\* last, after a step: the engine's state object while the engine still holds
\* the object it returned, and that object as it was left once reset() has
\* put a new one in its place.
seenThroughResultAfterStep ==
  IF resultState' = "dropped" THEN executionState ELSE executionState'

\* C25 as stated: the state carried in the result of execute() is a snapshot
\* of that run: no engine operation performed after execute() has returned
\* changes the history, step, currentLine, variables, isPaused or breakpoints
\* seen through that result.
C25_ResultStateIsSnapshot ==
  [][resultState = "engine" => seenThroughResultAfterStep = executionState]_vars

\* C26: re-execution is deterministic and makes no progress past a breakpoint:
\* two runs that each start from setCode with the same source, language and
\* breakpoints give the same result and the same executionHistory, whatever
\* was done to the engine in between, so re-running after a breakpoint halt
\* halts again on the same line with the same trace.
C26_RerunGivesSameOutcome ==
  \A i \in 1..Len(outcomes) :
    /\ outcomes[i].result = outcomes[1].result
    /\ outcomes[i].state.executionHistory = outcomes[1].state.executionHistory
    /\ outcomes[i].state.currentLine = outcomes[1].state.currentLine

\* executeCode was called again after a breakpoint halt, with a stepNext() or a
\* plain execute() in between, and has halted on the armed line again.
C26_Witness ==
  /\ pc = "idle"
  /\ lastOp.name = "executeCode"
  /\ Len(outcomes) = 2
  /\ result.kind = "error"
  /\ executionState.currentLine \in Range(breakpoints)
  /\ result.value = BreakpointMessage(executionState.currentLine)
  /\ outcomes[1].result = result

\* C28 as stated: when the visualizer, while playing, displays a step of type
\* error, it ends with isPlaying = false and isPaused = true, no playback
\* timer pending, and currentStep stays at the index of the error step until
\* the user's next command.
C28_PlaybackPausesOnError ==
  errorDisplayed # <<>> =>
    /\ ~isPlaying
    /\ isPaused
    /\ timers = {}
    /\ currentStep = errorDisplayed[1]

\* C29 as stated: under every interleaving of the commands and the timer
\* firings at most one playback timer is pending, a timer is pending only
\* while isPlaying is true, and isPlaying and isPaused are never both true.
C29_OneTimerOnlyWhilePlaying ==
  /\ Cardinality(timers) <= 1
  /\ timers # {} => isPlaying
  /\ ~(isPlaying /\ isPaused)

\* C30 as stated: after loadSession(sessionData) has returned, every line
\* listed in sessionData.breakpoints is armed in the application's breakpoint
\* set and in the engine, whatever was armed before the call; and loading the
\* data that exportSession has just exported leaves the application's
\* breakpoint set as it was.
C30_LoadSessionRestoresBreakpoints ==
  [][lastOp'.name = "loadSession" =>
       /\ \A bp \in Range(lastOp'.args[1]) :
            /\ bp \in Range(breakpoints')
            /\ bp \in executionState'.breakpoints
       /\ (lastOp.name = "exportSession" /\ lastOp'.args[1] = exported[1].breakpoints) =>
            Range(breakpoints') = Range(breakpoints)]_vars
====
